---- MODULE Spec2Model ----
(***************************************************************************)
(* Model of bin/check_samplesheet.py: the RowChecker service and the      *)
(* check_samplesheet orchestration.                                        *)
(*                                                                         *)
(* Cell values are Python strings, modelled as sequences of one-character  *)
(* strings so that replace, endswith, os.path.basename and the f-string    *)
(* rename are computed character by character.  A row is a dict from       *)
(* column name to cell value: a function whose DOMAIN is the set of keys.  *)
(*                                                                         *)
(* Two specifications share the variables:                                 *)
(*   Spec         one run of main()/check_samplesheet()                    *)
(*   SpecChecker  a RowChecker object driven through its public methods    *)
(***************************************************************************)
EXTENDS Integers, Sequences, FiniteSets, TLC

\* Bounds of the model.
MaxRows == 3

\* ---------------------------------------------------------------- strings
s_empty == << >>
s_S     == <<"S">>
s_S_T2  == <<"S", "_", "T", "2">>
s_A_B_C == <<"A", " ", "B", " ", "C">>
s_AuBuC == <<"A", "_", "B", "_", "C">>
s_dRCC  == <<"d", "/", "r", ".", "R", "C", "C">>
s_rRCC  == <<"r", ".", "R", "C", "C">>
s_aC    == <<"a", ".", "C">>
s_dir   == <<"t", "/">>
s_rcc   == <<"r", ".", "r", "c", "c">>
s_t0    == <<"0">>

\* Cell values the reader can deliver, per column.
SampleCells == {s_empty, s_S, s_S_T2, s_A_B_C, s_AuBuC}
FileCells   == {s_empty, s_dRCC, s_aC, s_dir, s_rcc}
NameCells   == {s_empty, s_rRCC}
TimeCells   == {s_t0}

\* RowChecker.__init__ column names.
sample_col    == "SAMPLE_ID"
rcc_file      == "RCC_FILE"
rcc_file_name == "RCC_FILE_NAME"
time          == "TIME"

\* RowChecker.VALID_FORMATS: a str, so iterating it yields its characters.
VALID_FORMATS == <<".", "R", "C", "C">>

\* Messages of the AssertionErrors the checker raises.
NoError      == "none"
ErrSample    == "Sample input is required."
ErrRccEmpty  == "RCC file is required."
ErrExtension == "The RCC file has an unrecognized extension"
ErrDuplicate == "The pair of sample name and FASTQ must be unique."

\* str.endswith
EndsWith(s, suffix) ==
    /\ Len(s) >= Len(suffix)
    /\ SubSeq(s, Len(s) - Len(suffix) + 1, Len(s)) = suffix

\* Variant of Replace: str.replace(" ", "_", 1), only the first space.
ReplaceFirst(s) ==
    [k \in 1..Len(s) |->
        IF s[k] = " " /\ (\A m \in 1..(k - 1) : s[m] # " ") THEN "_" ELSE s[k]]

\* str.replace(" ", "_")
Replace(s) == [k \in 1..Len(s) |-> IF s[k] = " " THEN "_" ELSE s[k]]

\* os.path.basename (posixpath): p[p.rfind("/") + 1:]
Basename(p) ==
    LET slashes == {k \in 1..Len(p) : p[k] = "/"}
        rfind   == IF slashes = {} THEN 0
                   ELSE CHOOSE k \in slashes : \A m \in slashes : m <= k
    IN  SubSeq(p, rfind + 1, Len(p))

\* str(n) for n >= 0
DigitChar == <<"0", "1", "2", "3", "4", "5", "6", "7", "8", "9">>
RECURSIVE Str(_)
Str(n) == IF n < 10 THEN <<DigitChar[n + 1]>>
          ELSE Str(n \div 10) \o <<DigitChar[(n % 10) + 1]>>

\* ---------------------------------------------------------------- input
\* Headers csv.DictReader can find in the first line.
Headers == { <<sample_col, rcc_file>>,
             <<rcc_file, rcc_file_name, sample_col>>,
             <<sample_col, rcc_file, time>>,
             <<sample_col, time>>,
             <<rcc_file_name, rcc_file>> }

Range(f) == {f[k] : k \in DOMAIN f}

CellsOf(col) == IF col = sample_col THEN SampleCells
                ELSE IF col = rcc_file THEN FileCells
                ELSE IF col = rcc_file_name THEN NameCells
                ELSE TimeCells

\* The dicts csv.DictReader yields for a header: one cell per field name.
RowsOf(fields) ==
    LET cols     == Range(fields)
        Pick(c)  == IF c \in cols THEN CellsOf(c) ELSE {s_empty}
    IN  {[c \in cols |-> IF c = sample_col THEN t[1]
                         ELSE IF c = rcc_file THEN t[2]
                         ELSE IF c = rcc_file_name THEN t[3]
                         ELSE t[4]] :
            t \in Pick(sample_col) \X Pick(rcc_file) \X Pick(rcc_file_name) \X Pick(time)}

\* Rows a client of RowChecker passes in: with or without the basename
\* column, each with one further column.
CheckerRows == RowsOf(<<sample_col, rcc_file, time>>)
               \cup RowsOf(<<rcc_file, rcc_file_name, sample_col, time>>)

\* ---------------------------------------------------------------- state
VARIABLES
    pc,          \* position in main()/check_samplesheet(), or "checker"
    fieldnames,  \* reader.fieldnames
    i,           \* number of rows the reader has yielded
    inrow,       \* the row as the reader yielded it (before mutation)
    row,         \* the same dict after validate_and_transform worked on it
    seen,        \* RowChecker._seen
    modified,    \* RowChecker.modified
    err,         \* outcome of the last RowChecker call
    uniqueCalls, \* number of validate_unique_samples calls
    exitStatus,  \* process exit status, -1 while running
    outOpened,   \* file_out has been opened with mode "w"
    header,      \* header passed to csv.DictWriter
    output       \* rows written by writer.writerow

vars == <<pc, fieldnames, i, inrow, row, seen, modified, err, uniqueCalls,
          exitStatus, outOpened, header, output>>

NoRow == [x \in {} |-> 0]

\* ---------------------------------------------------------------- RowChecker
\* _validate_sample: the mutation after the emptiness test.
ValidateSample(r) == [r EXCEPT ![sample_col] = Replace(r[sample_col])]

\* Variant of ValidRccFormat: the extension test never raises.
ValidRccFormatAny(filename) == Len(filename) >= 0

\* _validate_rcc_format: TRUE iff no AssertionError is raised.
ValidRccFormat(filename) ==
    \E k \in DOMAIN VALID_FORMATS : EndsWith(filename, <<VALID_FORMATS[k]>>)

\* Variant of DeriveFileName: the elif branch for an empty cell is missing.
DeriveFileNameAbsentOnly(r) ==
    IF rcc_file_name \notin DOMAIN r
    THEN (rcc_file_name :> Basename(r[rcc_file])) @@ r
    ELSE r

\* _validate_rcc_file: the basename derivation after the two tests.
DeriveFileName(r) ==
    IF rcc_file_name \notin DOMAIN r
    THEN (rcc_file_name :> Basename(r[rcc_file])) @@ r
    ELSE IF Len(r[rcc_file_name]) <= 0
         THEN [r EXCEPT ![rcc_file_name] = Basename(r[rcc_file])]
         ELSE r

\* Variant of Triple: the key leaves out the basename.
TripleNoName(r) == <<r[sample_col], r[rcc_file]>>

\* The key added to _seen.
Triple(r) == <<r[sample_col], r[rcc_file], r[rcc_file_name]>>

\* Variant of Transform: the file reference is validated before the sample.
TransformFileFirst(r) ==
    IF Len(r[rcc_file]) <= 0
    THEN [err |-> ErrRccEmpty, row |-> r]
    ELSE IF ~ValidRccFormat(r[rcc_file])
         THEN [err |-> ErrExtension, row |-> r]
         ELSE IF Len(r[sample_col]) <= 0
              THEN [err |-> ErrSample, row |-> DeriveFileName(r)]
              ELSE [err |-> NoError, row |-> DeriveFileName(ValidateSample(r))]

\* Variant of Transform: the basename is derived before the extension test.
TransformDeriveFirst(r) ==
    IF Len(r[sample_col]) <= 0
    THEN [err |-> ErrSample, row |-> r]
    ELSE LET r1 == ValidateSample(r) IN
         IF Len(r1[rcc_file]) <= 0
         THEN [err |-> ErrRccEmpty, row |-> r1]
         ELSE IF ~ValidRccFormat(r1[rcc_file])
              THEN [err |-> ErrExtension, row |-> DeriveFileName(r1)]
              ELSE [err |-> NoError, row |-> DeriveFileName(r1)]

\* validate_and_transform as a function of the row: the exception raised
\* (or NoError) and the dict as the call leaves it.
Transform(r) ==
    IF Len(r[sample_col]) <= 0
    THEN [err |-> ErrSample, row |-> r]
    ELSE LET r1 == ValidateSample(r) IN
         IF Len(r1[rcc_file]) <= 0
         THEN [err |-> ErrRccEmpty, row |-> r1]
         ELSE IF ~ValidRccFormat(r1[rcc_file])
              THEN [err |-> ErrExtension, row |-> r1]
              ELSE [err |-> NoError, row |-> DeriveFileName(r1)]

\* Variant of ValidateAndTransform: the seen-set is assigned, not added to.
ValidateAndTransformResetSeen(r) ==
    LET res == Transform(r) IN
    /\ inrow' = r
    /\ row' = res.row
    /\ err' = res.err
    /\ IF res.err = NoError
       THEN /\ seen' = {Triple(res.row)}
            /\ modified' = Append(modified, res.row)
       ELSE UNCHANGED <<seen, modified>>

\* Variant of ValidateAndTransform: the key is taken from the row as it came
\* in, before the substitution and the basename derivation.
ValidateAndTransformRawKey(r) ==
    LET res == Transform(r) IN
    /\ inrow' = r
    /\ row' = res.row
    /\ err' = res.err
    /\ IF res.err = NoError
       THEN /\ seen' = seen \cup
                  {<<r[sample_col], r[rcc_file],
                     IF rcc_file_name \in DOMAIN r THEN r[rcc_file_name] ELSE << >> >>}
            /\ modified' = Append(modified, res.row)
       ELSE UNCHANGED <<seen, modified>>

\* Variant of ValidateAndTransform: the row is inserted at the front of the
\* list, modified.insert(0, row).
ValidateAndTransformPrepend(r) ==
    LET res == Transform(r) IN
    /\ inrow' = r
    /\ row' = res.row
    /\ err' = res.err
    /\ IF res.err = NoError
       THEN /\ seen' = seen \cup {Triple(res.row)}
            /\ modified' = <<res.row>> \o modified
       ELSE UNCHANGED <<seen, modified>>

\* RowChecker.validate_and_transform(r): effect on the checker and the row.
ValidateAndTransform(r) ==
    LET res == Transform(r) IN
    /\ inrow' = r
    /\ row' = res.row
    /\ err' = res.err
    /\ IF res.err = NoError
       THEN /\ seen' = seen \cup {Triple(res.row)}
            /\ modified' = Append(modified, res.row)
       ELSE UNCHANGED <<seen, modified>>

\* collections.Counter: a missing key counts 0.
CounterGet(counter, key) == IF key \in DOMAIN counter THEN counter[key] ELSE 0

\* Variant of Increment: one counter shared by all identifiers.
IncrementShared(counter, sample) ==
    LET counts == {counter[k] : k \in DOMAIN counter}
        top    == IF counts = {} THEN 0
                  ELSE CHOOSE n \in counts : \A m \in counts : m <= n
    IN  (sample :> top + 1) @@ counter

\* seen[sample] += 1
Increment(counter, sample) ==
    (sample :> CounterGet(counter, sample) + 1) @@ counter

\* Variant of Renamed: only repeated occurrences get a suffix.
RenamedOnlyRepeats(sample, n) ==
    IF n = 1 THEN sample ELSE sample \o <<"_", "T">> \o Str(n)

\* f"{sample}_T{seen[sample]}"
Renamed(sample, n) == sample \o <<"_", "T">> \o Str(n)

\* The rename loop of validate_unique_samples from row k on.
RECURSIVE RenameFrom(_, _, _)
RenameFrom(rows, k, counter) ==
    IF k > Len(rows) THEN rows
    ELSE LET sample == rows[k][sample_col]
             c1     == Increment(counter, sample)
         IN  RenameFrom([rows EXCEPT ![k][sample_col] = Renamed(sample, c1[sample])],
                        k + 1, c1)

\* The test that opens validate_unique_samples: TRUE iff it raises.
UniqueCheckFails == Cardinality(seen) # Len(modified)

\* Variant of ValidateUniqueSamples: the rename loop runs before the test.
ValidateUniqueSamplesRenameFirst ==
    /\ uniqueCalls' = uniqueCalls + 1
    /\ modified' = RenameFrom(modified, 1, NoRow)
    /\ row' = IF err = NoError /\ Len(modified) > 0
              THEN modified'[Len(modified)]
              ELSE row
    /\ err' = IF UniqueCheckFails THEN ErrDuplicate ELSE NoError
    /\ UNCHANGED <<inrow, seen>>

\* Variant of ValidateUniqueSamples: the Counter is kept in self._seen instead
\* of a local, so the seen-set is replaced by the counted identifiers.
ValidateUniqueSamplesCounterInSeen ==
    /\ uniqueCalls' = uniqueCalls + 1
    /\ IF UniqueCheckFails
       THEN /\ err' = ErrDuplicate
            /\ UNCHANGED <<modified, row, seen>>
       ELSE /\ err' = NoError
            /\ modified' = RenameFrom(modified, 1, NoRow)
            /\ seen' = {modified[k][sample_col] : k \in 1..Len(modified)}
            /\ row' = IF err = NoError /\ Len(modified) > 0
                      THEN modified'[Len(modified)]
                      ELSE row
    /\ UNCHANGED inrow

\* RowChecker.validate_unique_samples().  The rows of modified are the dicts
\* the caller passed in, so the caller's last accepted row is renamed too.
ValidateUniqueSamples ==
    /\ uniqueCalls' = uniqueCalls + 1
    /\ IF UniqueCheckFails
       THEN /\ err' = ErrDuplicate
            /\ UNCHANGED <<modified, row>>
       ELSE /\ err' = NoError
            /\ modified' = RenameFrom(modified, 1, NoRow)
            /\ row' = IF err = NoError /\ Len(modified) > 0
                      THEN modified'[Len(modified)]
                      ELSE row
    /\ UNCHANGED <<inrow, seen>>

\* ---------------------------------------------------------------- run
Init ==
    /\ pc = "main"
    /\ fieldnames = << >>
    /\ i = 0
    /\ inrow = NoRow
    /\ row = NoRow
    /\ seen = {}
    /\ modified = << >>
    /\ err = NoError
    /\ uniqueCalls = 0
    /\ exitStatus = -1
    /\ outOpened = FALSE
    /\ header = << >>
    /\ output = << >>

\* main(): the input path is not a file.
MainNoFile ==
    /\ pc = "main"
    /\ pc' = "done"
    /\ exitStatus' = 2
    /\ UNCHANGED <<fieldnames, i, inrow, row, seen, modified, err, uniqueCalls,
                   outOpened, header, output>>

\* sniff_format: csv.Sniffer cannot determine the dialect; the csv.Error is
\* not caught and the interpreter exits with status 1.
SniffFails ==
    /\ pc = "main"
    /\ pc' = "done"
    /\ exitStatus' = 1
    /\ UNCHANGED <<fieldnames, i, inrow, row, seen, modified, err, uniqueCalls,
                   outOpened, header, output>>

\* Variant of ReadHeader: one required column is enough to go on.
ReadHeaderAny ==
    /\ pc = "main"
    /\ \E h \in Headers :
        /\ fieldnames' = h
        /\ IF {rcc_file, sample_col} \cap Range(h) # {}
           THEN pc' = "rows" /\ exitStatus' = exitStatus
           ELSE pc' = "done" /\ exitStatus' = 1
    /\ UNCHANGED <<i, inrow, row, seen, modified, err, uniqueCalls,
                   outOpened, header, output>>

\* check_samplesheet: open the input, read the header, test required columns.
ReadHeader ==
    /\ pc = "main"
    /\ \E h \in Headers :
        /\ fieldnames' = h
        /\ IF {rcc_file, sample_col} \subseteq Range(h)
           THEN pc' = "rows" /\ exitStatus' = exitStatus
           ELSE pc' = "done" /\ exitStatus' = 1
    /\ UNCHANGED <<i, inrow, row, seen, modified, err, uniqueCalls,
                   outOpened, header, output>>

\* Variant of ReadRow: a rejected row is skipped and the loop goes on.
ReadRowSkip ==
    /\ pc = "rows"
    /\ i < MaxRows
    /\ \E r \in RowsOf(fieldnames) : ValidateAndTransform(r)
    /\ i' = i + 1
    /\ UNCHANGED <<pc, exitStatus, fieldnames, uniqueCalls, outOpened, header, output>>

\* One iteration of the loop over the reader.
ReadRow ==
    /\ pc = "rows"
    /\ i < MaxRows
    /\ \E r \in RowsOf(fieldnames) : ValidateAndTransform(r)
    /\ i' = i + 1
    /\ IF err' = NoError
       THEN pc' = pc /\ exitStatus' = exitStatus
       ELSE pc' = "done" /\ exitStatus' = 1
    /\ UNCHANGED <<fieldnames, uniqueCalls, outOpened, header, output>>

\* Variant of EndOfInput: the missing column is put first, header.insert(0, ...).
EndOfInputPrepend ==
    /\ pc = "rows"
    /\ header' = IF rcc_file_name \notin Range(fieldnames)
                 THEN <<rcc_file_name>> \o fieldnames
                 ELSE fieldnames
    /\ pc' = "write"
    /\ UNCHANGED <<fieldnames, i, inrow, row, seen, modified, err, uniqueCalls,
                   exitStatus, outOpened, output>>

\* The reader is exhausted: build the output header.
EndOfInput ==
    /\ pc = "rows"
    /\ header' = IF rcc_file_name \notin Range(fieldnames)
                 THEN Append(fieldnames, rcc_file_name)
                 ELSE fieldnames
    /\ pc' = "write"
    /\ UNCHANGED <<fieldnames, i, inrow, row, seen, modified, err, uniqueCalls,
                   exitStatus, outOpened, output>>

\* Open file_out for writing and write every row of checker.modified.
WriteOutput ==
    /\ pc = "write"
    /\ outOpened' = TRUE
    /\ output' = modified
    /\ exitStatus' = 0
    /\ pc' = "done"
    /\ UNCHANGED <<fieldnames, i, inrow, row, seen, modified, err, uniqueCalls,
                   header>>

Next == MainNoFile \/ SniffFails \/ ReadHeader \/ ReadRow \/ EndOfInput \/ WriteOutput

Spec == Init /\ [][Next]_vars

\* ---------------------------------------------------------------- checker
\* A RowChecker used through its methods: rows are offered one at a time (a
\* rejected row leaves the object usable), then validate_unique_samples is
\* called once.
InitChecker ==
    /\ pc = "checker"
    /\ fieldnames = << >>
    /\ i = 0
    /\ inrow = NoRow
    /\ row = NoRow
    /\ seen = {}
    /\ modified = << >>
    /\ err = NoError
    /\ uniqueCalls = 0
    /\ exitStatus = -1
    /\ outOpened = FALSE
    /\ header = << >>
    /\ output = << >>

CallValidateAndTransform ==
    /\ pc = "checker"
    /\ Len(modified) < MaxRows
    /\ \E r \in CheckerRows : ValidateAndTransform(r)
    /\ i' = i
    /\ UNCHANGED <<pc, fieldnames, uniqueCalls, exitStatus, outOpened, header, output>>

CallValidateUniqueSamples ==
    /\ pc = "checker"
    /\ ValidateUniqueSamples
    /\ pc' = "finished"
    /\ UNCHANGED <<fieldnames, i, exitStatus, outOpened, header, output>>

NextChecker == CallValidateAndTransform \/ CallValidateUniqueSamples

SpecChecker == InitChecker /\ [][NextChecker]_vars

\* ---------------------------------------------------------------- properties
Accepted == 1..Len(modified)

\* C1: every accepted row's file reference ends, case-sensitively, with the
\* extension ".RCC"; a row whose file reference does not is never accepted.
C1_AcceptedEndsWithRCC ==
    \A k \in Accepted : EndsWith(modified[k][rcc_file], <<".", "R", "C", "C">>)

\* C2: whenever the run has reached the output stage, the uniqueness/rename
\* pass has run exactly once.
C2_UniquePassBeforeOutput ==
    (pc = "write" \/ outOpened) => uniqueCalls = 1

\* Two accepted rows with the same (sample, file reference, basename).
HasDuplicateTriple(rows) ==
    \E a, b \in 1..Len(rows) :
        /\ a < b
        /\ rows[a][sample_col] = rows[b][sample_col]
        /\ rows[a][rcc_file] = rows[b][rcc_file]
        /\ rows[a][rcc_file_name] = rows[b][rcc_file_name]

\* C3: a finished run in which every row was individually valid and two rows
\* had the same triple has exit status 1 and never opened the output file.
C3_DuplicateRowsExitOne ==
    (pc = "done" /\ i >= 2 /\ Len(modified) = i /\ HasDuplicateTriple(modified))
        => (exitStatus = 1 /\ ~outOpened)

\* C4: validate_unique_samples raises the duplicate-row error exactly when
\* two accepted rows have identical triples.
C4_DuplicateTripleDetected ==
    [][uniqueCalls' = uniqueCalls + 1
          => ((err' = ErrDuplicate) <=> HasDuplicateTriple(modified))]_vars

C4_Witness ==
    /\ uniqueCalls = 1
    /\ err = ErrDuplicate
    /\ Len(modified) = 2
    /\ modified[1] = modified[2]

\* 1-based position of row j among the rows carrying the same identifier.
Occurrence(rows, j) ==
    Cardinality({k \in 1..j : rows[k][sample_col] = rows[j][sample_col]})

\* C5: a successful validate_unique_samples renames the j-th row (in order)
\* with identifier id to id_Tj, counting from 1, separately per identifier.
C5_RenamedInOrder ==
    [][(uniqueCalls' = uniqueCalls + 1 /\ err' = NoError)
          => /\ Len(modified') = Len(modified)
             /\ \A j \in 1..Len(modified) :
                   modified'[j][sample_col] =
                       modified[j][sample_col] \o <<"_", "T">>
                           \o <<DigitChar[Occurrence(modified, j) + 1]>>]_vars

C5_Witness ==
    /\ uniqueCalls = 1
    /\ err = NoError
    /\ Len(modified) = 3
    /\ modified[1][sample_col] = <<"S", "_", "T", "1">>
    /\ modified[2][sample_col] = <<"A", "_", "B", "_", "C", "_", "T", "1">>
    /\ modified[3][sample_col] = <<"S", "_", "T", "2">>

\* C6: after a successful validate_unique_samples no two accepted rows have
\* the same sample identifier.
C6_RenamedIdentifiersDistinct ==
    (uniqueCalls = 1 /\ err = NoError)
        => \A a, b \in Accepted :
               a # b => modified[a][sample_col] # modified[b][sample_col]

C6_Witness ==
    /\ uniqueCalls = 1
    /\ err = NoError
    /\ Len(modified) = 3
    /\ modified[1][sample_col] = <<"S", "_", "T", "1">>
    /\ modified[2][sample_col] = <<"S", "_", "T", "2">>
    /\ modified[3][sample_col] = <<"S", "_", "T", "2", "_", "T", "1">>

\* C7: a step in which validate_and_transform fails ends the run with exit
\* status 1 and the output unopened, and no step follows it: no further row
\* is offered and the output file is never opened.
C7_RowFailureAborts ==
    [][/\ (err' # NoError) => /\ exitStatus' = 1
                              /\ pc' = "done"
                              /\ ~outOpened'
                              /\ output' = << >>
                              /\ i' = i + 1
                              /\ modified' = modified
       /\ err = NoError]_vars

C7_Witness ==
    /\ err # NoError
    /\ pc = "done"
    /\ i = 2
    /\ Len(modified) = 1
    /\ exitStatus = 1

\* b is the last path component of p.
IsLastComponent(b, p) ==
    /\ EndsWith(p, b)
    /\ \A k \in 1..Len(b) : b[k] # "/"
    /\ Len(b) = Len(p) \/ p[Len(p) - Len(b)] = "/"

\* C8: the basename of a newly accepted row is the last path component of
\* its file reference when the column was absent or empty in the input row,
\* and the input value otherwise; no later step changes it.
C8_BasenameDerivedOrPassedThrough ==
    [][/\ Len(modified') = Len(modified) + 1
          => LET a == modified'[Len(modified')] IN
             IF rcc_file_name \notin DOMAIN inrow' \/ inrow'[rcc_file_name] = << >>
             THEN IsLastComponent(a[rcc_file_name], inrow'[rcc_file])
             ELSE a[rcc_file_name] = inrow'[rcc_file_name]
       /\ \A k \in 1..Len(modified) :
             modified'[k][rcc_file_name] = modified[k][rcc_file_name]]_vars

C8_Witness ==
    /\ Len(modified) = 2
    /\ rcc_file_name \in DOMAIN inrow
    /\ inrow[rcc_file_name] = << >>
    /\ inrow[rcc_file] = s_dRCC
    /\ modified[2][rcc_file_name] = s_rRCC
    /\ modified[1][rcc_file] = s_aC
    /\ modified[1][rcc_file_name] = s_rRCC

\* C9: no accepted row's sample identifier contains a space; a newly accepted
\* identifier is the input identifier with every space turned into an
\* underscore, and substituting again changes nothing.
C9_NoSpaceInSample ==
    /\ \A k \in Accepted :
          /\ \A m \in 1..Len(modified[k][sample_col]) :
                modified[k][sample_col][m] # " "
          /\ Replace(modified[k][sample_col]) = modified[k][sample_col]
    /\ (err = NoError /\ uniqueCalls = 0 /\ Len(modified) > 0)
          => LET a == modified[Len(modified)][sample_col]
                 x == inrow[sample_col]
             IN  /\ Len(a) = Len(x)
                 /\ \A m \in 1..Len(x) :
                       a[m] = IF x[m] = " " THEN "_" ELSE x[m]

C9_Witness ==
    /\ err = NoError
    /\ uniqueCalls = 0
    /\ Len(modified) = 1
    /\ inrow[sample_col] = s_A_B_C
    /\ modified[1][sample_col] = s_AuBuC

\* C10: every accepted row has a basename column holding a non-empty value.
C10_BasenameNonEmpty ==
    \A k \in Accepted :
        /\ rcc_file_name \in DOMAIN modified[k]
        /\ Len(modified[k][rcc_file_name]) > 0

C10_Witness ==
    /\ Len(modified) = 1
    /\ err = NoError
    /\ rcc_file_name \notin DOMAIN inrow
    /\ inrow[rcc_file] = s_dRCC
    /\ modified[1][rcc_file_name] = s_rRCC

\* C11: once all rows of a run have been processed, the seen-set has as many
\* triples as there are accepted rows and no two accepted rows share a triple.
C11_SeenOnePerAcceptedRow ==
    (pc = "write" \/ (pc = "done" /\ exitStatus = 0))
        => /\ Cardinality(seen) = Len(modified)
           /\ ~HasDuplicateTriple(modified)

\* C12: a successful validate_unique_samples keeps the number and order of
\* the accepted rows, every column of every row other than the sample
\* identifier, and the seen-set.
C12_RenameChangesOnlySample ==
    [][(uniqueCalls' = uniqueCalls + 1 /\ err' = NoError)
          => /\ seen' = seen
             /\ Len(modified') = Len(modified)
             /\ \A k \in 1..Len(modified) :
                   /\ DOMAIN modified'[k] = DOMAIN modified[k]
                   /\ \A c \in DOMAIN modified[k] \ {sample_col} :
                         modified'[k][c] = modified[k][c]]_vars

C12_Witness ==
    /\ uniqueCalls = 1
    /\ err = NoError
    /\ Len(modified) = 2
    /\ modified[1][rcc_file] = s_aC
    /\ modified[1][rcc_file_name] = s_rRCC
    /\ modified[1][time] = s_t0
    /\ modified[2][rcc_file] = s_dRCC
    /\ modified[2][sample_col] = <<"S", "_", "T", "2">>

\* C13: a successful validate_and_transform appends the offered row after the
\* rows accepted before, which stay as they were; the appended row has the
\* input row's columns plus the basename column, and every column other than
\* the sample identifier and the basename keeps its input value; the rows
\* written to the output are the accepted rows in that order.
C13_AppendedInInputOrder ==
    [][/\ Len(modified') = Len(modified) + 1
          => LET a == modified'[Len(modified')]
                 x == inrow'
             IN  /\ SubSeq(modified', 1, Len(modified)) = modified
                 /\ DOMAIN a = DOMAIN x \cup {rcc_file_name}
                 /\ \A c \in DOMAIN x \ {sample_col, rcc_file_name} : a[c] = x[c]
       /\ Len(modified') # Len(modified) + 1 => modified' = modified
       /\ (outOpened' /\ ~outOpened) => output' = modified]_vars

C13_Witness ==
    /\ outOpened
    /\ Len(output) = 2
    /\ output[1][rcc_file] = s_aC
    /\ output[2][rcc_file] = s_dRCC
    /\ output[2][sample_col] = s_AuBuC
    /\ inrow[sample_col] = s_A_B_C
    /\ time \in DOMAIN output[1]
    /\ output[1][time] = s_t0

\* C14: the output header is the input header when that contains
\* RCC_FILE_NAME, and otherwise the input header followed by RCC_FILE_NAME.
C14_OutputHeader ==
    (pc = "write" \/ outOpened)
        => IF \E k \in 1..Len(fieldnames) : fieldnames[k] = "RCC_FILE_NAME"
           THEN header = fieldnames
           ELSE /\ Len(header) = Len(fieldnames) + 1
                /\ header[Len(header)] = "RCC_FILE_NAME"
                /\ \A k \in 1..Len(fieldnames) : header[k] = fieldnames[k]

C14_Witness ==
    /\ outOpened
    /\ fieldnames = <<"SAMPLE_ID", "RCC_FILE", "TIME">>
    /\ header = <<"SAMPLE_ID", "RCC_FILE", "TIME", "RCC_FILE_NAME">>

\* C15: once a header lacking SAMPLE_ID or RCC_FILE has been read, the run
\* is over with exit status 1, no row was offered and the output is unopened.
C15_MissingColumnAborts ==
    (fieldnames # << >>
        /\ \E c \in {"SAMPLE_ID", "RCC_FILE"} :
              \A k \in 1..Len(fieldnames) : fieldnames[k] # c)
        => /\ pc = "done"
           /\ exitStatus = 1
           /\ i = 0
           /\ inrow = NoRow
           /\ modified = << >>
           /\ ~outOpened

C15_Witness ==
    /\ fieldnames = <<"SAMPLE_ID", "TIME">>
    /\ pc = "done"
    /\ exitStatus = 1

\* C16: the rules apply in a fixed order: an empty sample identifier gives
\* the sample error whatever the file reference is, and a non-empty sample
\* identifier with an empty file reference gives the empty-file error.
C16_FirstViolatedRuleReported ==
    inrow # NoRow
        => /\ inrow["SAMPLE_ID"] = << >> => err = ErrSample
           /\ (inrow["SAMPLE_ID"] # << >> /\ inrow["RCC_FILE"] = << >>)
                 => err = ErrRccEmpty

C16_Witness ==
    /\ inrow # NoRow
    /\ inrow["SAMPLE_ID"] = << >>
    /\ inrow["RCC_FILE"] = s_dir
    /\ err = ErrSample

\* s with every space turned into an underscore.
UnderscoreForSpace(s) == [k \in DOMAIN s |-> IF s[k] = " " THEN "_" ELSE s[k]]

\* The last call was a validate_and_transform that raised.
RowRejected(e) == e \in {ErrSample, ErrRccEmpty, ErrExtension}

\* C17: a failing validate_and_transform leaves the seen-set and the accepted
\* sequence as they were; the rejected row is as it came in, except that its
\* sample identifier has the spaces replaced when the sample test passed.
C17_RejectedRowLeavesNoTrace ==
    [][RowRejected(err')
          => /\ seen' = seen
             /\ modified' = modified
             /\ row' = IF err' = ErrSample THEN inrow'
                       ELSE [inrow' EXCEPT
                               !["SAMPLE_ID"] = UnderscoreForSpace(inrow'["SAMPLE_ID"])]]_vars

C17_Witness ==
    /\ err = ErrExtension
    /\ Len(modified) = 1
    /\ inrow["SAMPLE_ID"] = s_A_B_C
    /\ row["SAMPLE_ID"] = s_AuBuC
    /\ "RCC_FILE_NAME" \notin DOMAIN row

\* C18: before the rename pass the seen-set is the set of triples of the
\* accepted rows, so it is never larger than the accepted sequence and the
\* sizes differ exactly when the seen-set is smaller.
C18_SeenIsSetOfTriples ==
    uniqueCalls = 0
        => /\ seen = {<<modified[k]["SAMPLE_ID"], modified[k]["RCC_FILE"],
                        modified[k]["RCC_FILE_NAME"]>> : k \in Accepted}
           /\ Cardinality(seen) <= Len(modified)
           /\ (Cardinality(seen) # Len(modified))
                 <=> (Cardinality(seen) < Len(modified))

C18_Witness ==
    /\ uniqueCalls = 0
    /\ Len(modified) = 3
    /\ Cardinality(seen) = 2

\* C19: a validate_unique_samples that raises the duplicate-row error leaves
\* every accepted row, the accepted sequence and the seen-set as they were.
C19_DuplicateErrorRenamesNothing ==
    [][(uniqueCalls' = uniqueCalls + 1 /\ err' = ErrDuplicate)
          => /\ modified' = modified
             /\ seen' = seen
             /\ row' = row]_vars

C19_Witness ==
    /\ uniqueCalls = 1
    /\ err = ErrDuplicate
    /\ Len(modified) = 3
    /\ modified[1] = modified[3]
    /\ modified[2] # modified[1]

\* The key of an input row: its transformed values.
KeyOfInput(x) ==
    <<UnderscoreForSpace(x["SAMPLE_ID"]), x["RCC_FILE"],
      IF "RCC_FILE_NAME" \notin DOMAIN x \/ x["RCC_FILE_NAME"] = << >>
      THEN CHOOSE b \in {SubSeq(x["RCC_FILE"], k, Len(x["RCC_FILE"])) :
                            k \in 1..Len(x["RCC_FILE"]) + 1} :
               IsLastComponent(b, x["RCC_FILE"])
      ELSE x["RCC_FILE_NAME"]>>

\* C20: the uniqueness key and the rename counter use the transformed values
\* of a row.  When the last accepted row's input, after the substitution and
\* the basename derivation, has the triple of an earlier accepted row,
\* validate_unique_samples raises the duplicate-row error; when it succeeds,
\* the last row is counted with the earlier rows whose identifier equals its
\* substituted identifier.
C20_KeyUsesTransformedValues ==
    [][(uniqueCalls' = uniqueCalls + 1 /\ err = NoError /\ Len(modified) >= 1)
          => LET n       == Len(modified)
                 key     == KeyOfInput(inrow)
                 earlier == {k \in 1..(n - 1) : modified[k]["SAMPLE_ID"] = key[1]}
             IN  /\ (\E k \in 1..(n - 1) :
                        /\ modified[k]["SAMPLE_ID"] = key[1]
                        /\ modified[k]["RCC_FILE"] = key[2]
                        /\ modified[k]["RCC_FILE_NAME"] = key[3])
                      => err' = ErrDuplicate
                 /\ err' = NoError
                      => modified'[n]["SAMPLE_ID"] =
                            key[1] \o <<"_", "T">>
                                \o <<DigitChar[Cardinality(earlier) + 2]>>]_vars

C20_Witness ==
    /\ uniqueCalls = 1
    /\ err = ErrDuplicate
    /\ Len(modified) = 2
    /\ inrow["SAMPLE_ID"] = s_A_B_C
    /\ "RCC_FILE_NAME" \notin DOMAIN inrow
    /\ inrow["RCC_FILE"] = s_dRCC
    /\ modified[1] = modified[2]

====
